---------------------------- MODULE Spec2Model ----------------------------
(***************************************************************************)
(* Dictionary unification and dictionary-index transposition of            *)
(* cpp/src/arrow/array/dict_internal.cc.                                   *)
(*                                                                         *)
(*   Spec          DictionaryUnifierImpl: Unify / GetResult call sequences *)
(*   SpecRoundTrip the same, on the dictionaries of the round-trip example *)
(*   SpecWidth     the index-type selection of GetResult over memo sizes   *)
(*   SpecTranspose DictionaryArray::Transpose over source arrays and maps  *)
(***************************************************************************)
EXTENDS Integers, Sequences, FiniteSets, TLC

VARIABLES
    memo_table_,  \* DictionaryUnifierImpl::memo_table_: the values in id order
    ncalls,       \* the number of Unify calls made on the Unifier
    history,      \* the (dictionary, map) pairs of the Unify calls that returned a map
    last,         \* what the caller saw of the most recent Unifier call
    result,       \* what the most recent GetResult wrote to *out_type / *out_dict
    dict_length,  \* GetResult's local dict_length (SpecWidth)
    index_type,   \* GetResult's local index_type (SpecWidth)
    tin,          \* the arguments and receiver of a Transpose call (SpecTranspose)
    tout          \* the outcome of that Transpose call (SpecTranspose)

vars == <<memo_table_, ncalls, history, last, result, dict_length, index_type, tin, tout>>

----------------------------------------------------------------------------
(* Bounds of the model *)

MaxLen == 2         \* longest dictionary over SmallValues handed to Unify
MaxCalls == 2       \* Unify calls made on one Unifier
Window == 20        \* memo sizes explored on each side of a width boundary
PhysLen == 2        \* physical slots of the source array's buffers

\* Dictionary values: every short sequence over SmallValues (repeats
\* included), and the two dictionaries of the round-trip example.
SmallValues == {"a", "b"}
RoundTripFirst == <<"b", "a", "c">>
RoundTripSecond == <<"a", "d">>

None == "none"

----------------------------------------------------------------------------
(* Integer types *)

Int8Max == 127
Int16Max == 32767
Int32Max == 2147483647

IndexTypes == {"int8", "int16", "int32", "int64"}

BitWidth(t) == CASE t = "int8" -> 8 [] t = "int16" -> 16 [] t = "int32" -> 32
                 [] t = "int64" -> 64

\* k is at most the maximum value of index type t.
Fits(k, t) == CASE t = "int8" -> k <= Int8Max
                [] t = "int16" -> k <= Int16Max
                [] t = "int32" -> k <= Int32Max
                [] t = "int64" -> TRUE

SeqsUpTo(S, n) == UNION {[1..k -> S] : k \in 0..n}

IsPrefix(s, t) == Len(s) <= Len(t) /\ \A i \in 1..Len(s) : s[i] = t[i]

----------------------------------------------------------------------------
(* DictionaryUnifierImpl *)

\* The type the Unifier was constructed for, and the types of the arrays
\* handed to Unify.
value_type_ == "utf8"
DictTypes == {"utf8", "binary"}

\* MemoTable::GetOrInsert: the id of a value already in the table, else the
\* next dense id, the value being appended.  Ids are 0-based.
IndexOf(memo, v) == (CHOOSE k \in 1..Len(memo) : memo[k] = v) - 1

Contains(memo, v) == \E k \in 1..Len(memo) : memo[k] = v

GetOrInsert(memo, v) ==
    IF Contains(memo, v)
    THEN [memo |-> memo, index |-> IndexOf(memo, v)]
    ELSE [memo |-> Append(memo, v), index |-> Len(memo)]

\* The checks at the head of Unify: the Status they return.
UnifyPrecheckWrongKind(dictionary) ==
    IF dictionary.null_count > 0 THEN "Invalid"
    ELSE IF dictionary.type # value_type_ THEN "TypeError"
    ELSE "OK"

UnifyPrecheck(dictionary) ==
    IF dictionary.null_count > 0 THEN "Invalid"
    ELSE IF dictionary.type # value_type_ THEN "Invalid"
    ELSE "OK"

\* The loop of Unify from position i on (1-based here): GetOrInsert of each
\* value in order, the id stored at result_raw[i].  fail_at is the position
\* whose insertion returns an error (0: none does); RETURN_NOT_OK leaves the
\* loop there, with what was inserted before still in the table.
RECURSIVE UnifyLoopFrom(_, _, _, _, _)
UnifyLoopFrom(memo, values, i, result_raw, fail_at) ==
    IF i > Len(values) THEN [ok |-> TRUE, memo |-> memo, result_raw |-> result_raw]
    ELSE IF i = fail_at /\ ~Contains(memo, values[i])
         THEN [ok |-> FALSE, memo |-> memo, result_raw |-> result_raw]
         ELSE LET r == GetOrInsert(memo, values[i])
              IN UnifyLoopFrom(r.memo, values, i + 1, Append(result_raw, r.index), fail_at)

RECURSIVE UnifyLoopPosition(_, _, _, _, _)
UnifyLoopPosition(memo, values, i, result_raw, fail_at) ==
    IF i > Len(values) THEN [ok |-> TRUE, memo |-> memo, result_raw |-> result_raw]
    ELSE IF i = fail_at /\ ~Contains(memo, values[i])
         THEN [ok |-> FALSE, memo |-> memo, result_raw |-> result_raw]
         ELSE LET r == GetOrInsert(memo, values[i])
              IN UnifyLoopPosition(r.memo, values, i + 1, Append(result_raw, i - 1), fail_at)

UnifyLoopPositions(memo, values, fail_at) ==
    UnifyLoopPosition(memo, values, 1, <<>>, fail_at)

UnifyLoop(memo, values, fail_at) == UnifyLoopFrom(memo, values, 1, <<>>, fail_at)

\* Unify(dictionary, out): the Status, the table afterwards, whether *out was
\* assigned and the map it then holds.
UnifyImplLocalIds(memo, dictionary, want_map, alloc_ok, fail_at) ==
    LET pre == UnifyPrecheck(dictionary)
        loop == UnifyLoop(memo, dictionary.values, fail_at)
        local == UnifyLoop(<<>>, dictionary.values, 0)
    IN  IF pre # "OK"
        THEN [status |-> pre, memo |-> memo, out_written |-> FALSE, out |-> <<>>]
        ELSE IF want_map /\ ~alloc_ok
        THEN [status |-> "OutOfMemory", memo |-> memo, out_written |-> FALSE, out |-> <<>>]
        ELSE IF ~loop.ok
        THEN [status |-> "OutOfMemory", memo |-> loop.memo, out_written |-> FALSE,
              out |-> <<>>]
        ELSE [status |-> "OK", memo |-> loop.memo, out_written |-> want_map,
              out |-> IF want_map THEN local.result_raw ELSE <<>>]

UnifyImpl(memo, dictionary, want_map, alloc_ok, fail_at) ==
    LET pre == UnifyPrecheck(dictionary)
        loop == UnifyLoop(memo, dictionary.values, fail_at)
    IN  IF pre # "OK"
        THEN [status |-> pre, memo |-> memo, out_written |-> FALSE, out |-> <<>>]
        ELSE IF want_map /\ ~alloc_ok
        THEN [status |-> "OutOfMemory", memo |-> memo, out_written |-> FALSE, out |-> <<>>]
        ELSE IF ~loop.ok
        THEN [status |-> "OutOfMemory", memo |-> loop.memo, out_written |-> FALSE,
              out |-> <<>>]
        ELSE [status |-> "OK", memo |-> loop.memo, out_written |-> want_map,
              out |-> IF want_map THEN loop.result_raw ELSE <<>>]

\* The index type GetResult chooses for a table of dict_length values.
IndexTypeForUnsignedLimit(n) ==
    IF n <= 255 THEN "int8"
    ELSE IF n <= Int16Max THEN "int16"
    ELSE IF n <= Int32Max THEN "int32"
    ELSE "int64"

IndexTypeForStrict(n) ==
    IF n < Int8Max THEN "int8"
    ELSE IF n < Int16Max THEN "int16"
    ELSE IF n < Int32Max THEN "int32"
    ELSE "int64"

IndexTypeFor(n) ==
    IF n <= Int8Max THEN "int8"
    ELSE IF n <= Int16Max THEN "int16"
    ELSE IF n <= Int32Max THEN "int32"
    ELSE "int64"

\* The arrays handed to Unify.  An array Unify rejects at its head is not
\* looked into, so one array stands for each way of being rejected.
GoodDictionaries(valueSeqs) ==
    [type : {value_type_}, null_count : {0}, values : valueSeqs]

BadDictionaries ==
    [type : DictTypes, null_count : {0, 1}, values : {<<"a">>}]
        \ GoodDictionaries({<<"a">>})

Dictionaries == GoodDictionaries(SeqsUpTo(SmallValues, MaxLen)) \cup BadDictionaries

RoundTripDictionaries ==
    GoodDictionaries({RoundTripFirst, RoundTripSecond}) \cup BadDictionaries

\* What can go wrong inside a call: nothing, the allocation of the map
\* buffer, or the insertion at one position.
Faults(dictionary) == {[alloc_ok |-> TRUE, fail_at |-> k] : k \in 0..Len(dictionary.values)}
                          \cup {[alloc_ok |-> FALSE, fail_at |-> 0]}

NoCall == [op |-> None, status |-> None, has_null |-> FALSE, type_equal |-> TRUE,
           cause |-> None, before |-> <<>>, out_written |-> FALSE]

NoResult == [done |-> FALSE, index_type |-> None, out_dict |-> <<>>]

UnifyWith(dictionaries) ==
    /\ ncalls < MaxCalls
    /\ ncalls' = ncalls + 1
    /\ \E dictionary \in dictionaries, want_map \in BOOLEAN :
       \E fault \in Faults(dictionary) :
         LET r == UnifyImpl(memo_table_, dictionary, want_map, fault.alloc_ok,
                            fault.fail_at)
         IN  /\ memo_table_' = r.memo
             /\ history' = IF r.out_written
                           THEN Append(history, [dictionary |-> dictionary.values,
                                                 map |-> r.out])
                           ELSE history
             /\ last' = [op |-> "Unify", status |-> r.status,
                         has_null |-> dictionary.null_count > 0,
                         type_equal |-> dictionary.type = value_type_,
                         cause |-> IF r.status = "OK" THEN None
                                   ELSE IF UnifyPrecheck(dictionary) # "OK" THEN "precheck"
                                   ELSE IF want_map /\ ~fault.alloc_ok THEN "AllocateBuffer"
                                   ELSE "GetOrInsert",
                         before |-> memo_table_, out_written |-> r.out_written]
    /\ UNCHANGED <<result, dict_length, index_type, tin, tout>>

Unify == UnifyWith(Dictionaries)

UnifyRoundTrip == UnifyWith(RoundTripDictionaries)

\* GetResult: the index type for the table's size and the table's values in
\* id order; the table itself is only read.
GetResultClears ==
    /\ result' = [done |-> TRUE, index_type |-> IndexTypeFor(Len(memo_table_)),
                  out_dict |-> memo_table_]
    /\ memo_table_' = <<>>
    /\ last' = [NoCall EXCEPT !.op = "GetResult", !.status = "OK",
                              !.before = memo_table_]
    /\ UNCHANGED <<ncalls, history, dict_length, index_type, tin, tout>>

GetResult ==
    /\ result' = [done |-> TRUE, index_type |-> IndexTypeFor(Len(memo_table_)),
                  out_dict |-> memo_table_]
    /\ last' = [NoCall EXCEPT !.op = "GetResult", !.status = "OK",
                              !.before = memo_table_]
    /\ UNCHANGED <<memo_table_, ncalls, history, dict_length, index_type, tin, tout>>

\* GetResult's choice of index type alone, for a table of dict_length values.
GetResultWidth ==
    /\ index_type = None
    /\ index_type' = IndexTypeFor(dict_length)
    /\ UNCHANGED <<memo_table_, ncalls, history, last, result, dict_length, tin, tout>>

----------------------------------------------------------------------------
(* DictionaryArray::Transpose *)

\* The dictionary of the source array; transpose_map has one entry for each
\* of its positions.
InDictionary == <<"x", "y">>
in_dict_len == Len(InDictionary)

\* Index type ids: the four the dispatch knows and one it does not.
TypeIds == IndexTypes \cup {"uint8"}

\* The `type` argument: a dictionary type with its index type, or another type.
TargetTypes == [id : {"DICTIONARY"}, index_type : TypeIds]
                   \cup [id : {"UTF8"}, index_type : {None}]

\* Entries of transpose_map: positions of the target dictionary.
MapValues == {0, 1, 200}

\* What a read past the end of transpose_map can return.
GarbageValues == {0, 77}

NoBitmap == [present |-> FALSE, bits |-> <<>>]

\* Array::IsNull(i) of an array with the given validity bitmap and offset.
IsNull(bitmap, offset, i) == bitmap.present /\ ~bitmap.bits[offset + i + 1]

\* static_cast of an int32 to the index type t.
StaticCast(x, t) ==
    CASE t = "int8" -> ((x + 128) % 256) - 128
      [] t = "int16" -> ((x + 32768) % 65536) - 32768
      [] OTHER -> x

\* IsTrivialTransposition: the answer and the positions of the map it read.
RECURSIVE TrivialFrom(_, _, _)
TrivialFrom(transpose_map, input_dict_size, i) ==
    IF i >= input_dict_size THEN [trivial |-> TRUE, read |-> 0..(i - 1)]
    ELSE IF transpose_map[i + 1] # i THEN [trivial |-> FALSE, read |-> 0..i]
    ELSE TrivialFrom(transpose_map, input_dict_size, i + 1)

IsTrivialTransposition(transpose_map, input_dict_size) ==
    TrivialFrom(transpose_map, input_dict_size, 0)

\* ArrayData::GetValues<T>(1): the values buffer from the array's offset on.
GetValues(buffer, offset) == [i \in 1..(Len(buffer) - offset) |-> buffer[i + offset]]

\* CopyBitmap(pool, data, offset, length): length bits of data from bit
\* offset on, in a new buffer starting at bit 0.
CopyBitmap(bits, offset, length) == [i \in 1..length |-> bits[offset + i]]

\* internal::TransposeInts(src, dest, length, transpose_map) as
\* TransposeDictIndices calls it: it is given no validity bitmap, so every
\* one of the length slots of src is looked up in the map and written to
\* dest.  A slot outside the map reads `garbage`.
TransposeInts(src, length, transpose_map, out_type, garbage) ==
    [i \in 1..length |->
        StaticCast(IF src[i] \in 0..(Len(transpose_map) - 1)
                   THEN transpose_map[src[i] + 1] ELSE garbage, out_type)]

\* The positions of transpose_map that TransposeInts reads.
TransposeReads(src, length) == {src[i] : i \in 1..length}

NoTranspose == [status |-> None, path |-> None, length |-> 0, offset |-> 0,
                null_count |-> 0, bitmap |-> NoBitmap, indices |-> <<>>,
                index_type |-> None, accessed |-> {}]

NoArguments == [length |-> 0, offset |-> 0, null_count |-> 0, bitmap |-> NoBitmap,
                indices |-> <<>>, in_type |-> None,
                type |-> [id |-> None, index_type |-> None], transpose_map |-> <<>>]

Failed(status, path, accessed) ==
    [NoTranspose EXCEPT !.status = status, !.path = path, !.accessed = accessed]

\* What the code leaves open in one call: whether the allocations succeed,
\* what CopyBitmap gets when it reads through a null bitmap pointer (the
\* process dies, or some bits) and what a read past the end of
\* transpose_map gives (the process dies, or some value).
NullReads(length) ==
    {[crash |-> TRUE, bits |-> [i \in 1..length |-> TRUE]]}
        \cup [crash : {FALSE}, bits : [1..length -> BOOLEAN]]

MapReads == [crash : {TRUE}, value : {0}] \cup [crash : {FALSE}, value : GarbageValues]

\* The fast path's array: the source's two buffers, length, null count and
\* offset under the new type.
FastPathDataAtZero(a, read) ==
    [status |-> "OK", path |-> "fast", length |-> a.length, offset |-> 0,
     null_count |-> a.null_count, bitmap |-> a.bitmap, indices |-> a.indices,
     index_type |-> a.type.index_type, accessed |-> read]

FastPathData(a, read) ==
    [status |-> "OK", path |-> "fast", length |-> a.length, offset |-> a.offset,
     null_count |-> a.null_count, bitmap |-> a.bitmap, indices |-> a.indices,
     index_type |-> a.type.index_type, accessed |-> read]

\* Transpose on the array and arguments a.
TransposeImpl(a, alloc_ok, copy_ok, null_read, map_read) ==
    LET trivial == IsTrivialTransposition(a.transpose_map, in_dict_len)
        src == GetValues(a.indices, a.offset)
        reads == TransposeReads(src, a.length)
        out_of_map == \E v \in reads : v \notin 0..(in_dict_len - 1)
        null_bitmap ==
            IF a.offset # 0
            THEN [present |-> TRUE,
                  bits |-> IF a.bitmap.present
                           THEN CopyBitmap(a.bitmap.bits, a.offset, a.length)
                           ELSE null_read.bits]
            ELSE a.bitmap
    IN  IF a.type.id # "DICTIONARY" THEN Failed("TypeError", None, {})
        ELSE IF a.in_type = a.type.index_type /\ trivial.trivial
        THEN FastPathData(a, trivial.read)
        ELSE
        LET read0 == IF a.in_type = a.type.index_type THEN trivial.read ELSE {}
        IN  IF ~alloc_ok THEN Failed("OutOfMemory", "general", read0)
            ELSE IF a.offset # 0 /\ ~a.bitmap.present /\ a.length > 0 /\ null_read.crash
            THEN Failed("crashed", "general", read0)
            ELSE IF a.offset # 0 /\ ~copy_ok THEN Failed("OutOfMemory", "general", read0)
            ELSE IF a.in_type \notin IndexTypes \/ a.type.index_type \notin IndexTypes
            THEN Failed("NotImplemented", "general", read0)
            ELSE IF out_of_map /\ map_read.crash
            THEN Failed("crashed", "general", read0 \cup reads)
            ELSE [status |-> "OK", path |-> "general", length |-> a.length,
                  offset |-> 0, null_count |-> a.null_count, bitmap |-> null_bitmap,
                  indices |-> TransposeInts(src, a.length, a.transpose_map,
                                            a.type.index_type, map_read.value),
                  index_type |-> a.type.index_type, accessed |-> read0 \cup reads]

\* The source arrays: buffers of up to PhysLen slots and a slice reaching
\* their end, with or without a validity bitmap.  The index at a non-null
\* position of the slice is a position of the dictionary; the other slots
\* hold anything.
SliceRange(a) == (a.offset + 1)..(a.offset + a.length)

NullsIn(a) == {i \in SliceRange(a) : a.bitmap.present /\ ~a.bitmap.bits[i]}

\* The entries of transpose_map are positions of the target dictionary,
\* which the target index type addresses.
WellFormed(a) ==
    /\ a.null_count = Cardinality(NullsIn(a))
    /\ \A i \in SliceRange(a) \ NullsIn(a) : a.indices[i] \in 0..(in_dict_len - 1)
    /\ a.type.index_type \in IndexTypes =>
           \A k \in 1..in_dict_len : Fits(a.transpose_map[k], a.type.index_type)

ArgumentsOfSize(n) ==
    {a \in [length : 0..n, offset : 0..n, null_count : 0..n,
            bitmap : {NoBitmap} \cup [present : {TRUE}, bits : [1..n -> BOOLEAN]],
            indices : [1..n -> 0..in_dict_len],
            in_type : TypeIds, type : TargetTypes,
            transpose_map : [1..in_dict_len -> MapValues]] :
        a.offset + a.length = n /\ WellFormed(a)}

Arguments == UNION {ArgumentsOfSize(n) : n \in 0..PhysLen}

\* Whether a call on a reaches the read through a null bitmap pointer, and
\* the read past the end of the map.
ReadsNullBitmap(a) == a.offset # 0 /\ ~a.bitmap.present /\ a.length > 0

ReadsPastMap(a) ==
    \E v \in TransposeReads(GetValues(a.indices, a.offset), a.length) :
        v \notin 0..(in_dict_len - 1)

Transpose ==
    /\ tout.status = None
    /\ \E alloc_ok, copy_ok \in BOOLEAN :
       \E null_read \in IF ReadsNullBitmap(tin) THEN NullReads(tin.length)
                        ELSE {CHOOSE r \in NullReads(tin.length) : r.crash},
          map_read \in IF ReadsPastMap(tin) THEN MapReads
                       ELSE {CHOOSE r \in MapReads : r.crash} :
          tout' = TransposeImpl(tin, alloc_ok, copy_ok, null_read, map_read)
    /\ UNCHANGED <<memo_table_, ncalls, history, last, result, dict_length,
                   index_type, tin>>

Init ==
    /\ memo_table_ = <<>>
    /\ ncalls = 0
    /\ history = <<>>
    /\ last = NoCall
    /\ result = NoResult
    /\ dict_length = 0
    /\ index_type = None
    /\ tin = NoArguments
    /\ tout = NoTranspose

Next == Unify \/ GetResult

Spec == Init /\ [][Next]_vars

NextRoundTrip == UnifyRoundTrip \/ GetResult

SpecRoundTrip == Init /\ [][NextRoundTrip]_vars

\* Table sizes around each boundary of the index types.  The ids of the memo
\* table are int32_t, so its size stays within Int32Max.
WidthInputs ==
    (0..Window) \cup ((Int8Max - Window)..(Int8Max + Window))
        \cup ((Int16Max - Window)..(Int16Max + Window))
        \cup {Int32Max - k : k \in 0..Window}

InitWidth ==
    /\ memo_table_ = <<>>
    /\ ncalls = 0
    /\ history = <<>>
    /\ last = NoCall
    /\ result = NoResult
    /\ dict_length \in WidthInputs
    /\ index_type = None
    /\ tin = NoArguments
    /\ tout = NoTranspose

NextWidth == GetResultWidth

SpecWidth == InitWidth /\ [][NextWidth]_vars

InitTranspose ==
    /\ memo_table_ = <<>>
    /\ ncalls = 0
    /\ history = <<>>
    /\ last = NoCall
    /\ result = NoResult
    /\ dict_length = 0
    /\ index_type = None
    /\ tin \in Arguments
    /\ tout = NoTranspose

NextTranspose == Transpose

SpecTranspose == InitTranspose /\ [][NextTranspose]_vars

----------------------------------------------------------------------------
(* Properties of the Unifier *)

SmallestFitting(k) ==
    CHOOSE t \in IndexTypes :
        Fits(k, t) /\ \A u \in IndexTypes : Fits(k, u) => BitWidth(t) <= BitWidth(u)

\* map is valid for dictionary against the canonical dictionary canon.
ValidMap(dictionary, map, canon) ==
    /\ Len(map) = Len(dictionary)
    /\ \A i \in 1..Len(dictionary) :
         /\ map[i] \in 0..(Len(canon) - 1)
         /\ canon[map[i] + 1] = dictionary[i]

\* C1: after any sequence of Unify calls followed by GetResult, the map every
\* call returned is valid against the final canonical dictionary (canonical[m[i]]
\* = d[i] at every position), hence equal values of one dictionary have equal
\* ids, and later calls do not change the ids given out by earlier ones.
C1_MapsValid ==
    (result.done /\ last.op = "GetResult") =>
        \A k \in 1..Len(history) :
            /\ ValidMap(history[k].dictionary, history[k].map, result.out_dict)
            /\ \A i, j \in 1..Len(history[k].dictionary) :
                 history[k].dictionary[i] = history[k].dictionary[j]
                     => history[k].map[i] = history[k].map[j]

C1_Witness ==
    /\ result.done /\ last.op = "GetResult"
    /\ Len(history) = 2
    /\ history[1].dictionary = <<"b", "b">>
    /\ history[2].dictionary = <<"a", "b">>
    /\ history[2].map = <<1, 0>>

\* C2: the index type GetResult selects can address position size() - 1 of
\* the canonical dictionary, and a table of exactly 128 values gets int16.
C2_WidthSuffices ==
    index_type # None =>
        /\ Fits(dict_length - 1, index_type)
        /\ (dict_length = 128 => index_type = "int16")

C2_Witness == dict_length = 128 /\ index_type = "int16"

\* C3 as stated: the index type is the smallest whose maximum is >= n - 1.
C3_Original == index_type # None => index_type = SmallestFitting(dict_length - 1)

\* C3 as amended: the index type is the smallest whose maximum is >= n, the
\* size of the table (so 128 values get int16 and 32768 values get int32).
C3_SmallestForSize == index_type # None => index_type = SmallestFitting(dict_length)

C3_Witness == dict_length = 32768 /\ index_type = "int32"

RoundTripDone ==
    /\ ncalls = 2 /\ Len(history) = 2
    /\ history[1].dictionary = RoundTripFirst
    /\ history[2].dictionary = RoundTripSecond
    /\ last.op = "GetResult"

\* C4 as stated: on a fresh Unifier, Unify(["b","a","c"]) then Unify(["a","d"])
\* then GetResult give the canonical dictionary b,a,c,d and the maps [1,0,2]
\* and [0,3].
C4_Original ==
    RoundTripDone
        => /\ result.out_dict = <<"b", "a", "c", "d">>
           /\ history[1].map = <<1, 0, 2>>
           /\ history[2].map = <<0, 3>>

\* C4 as amended: the canonical dictionary is b,a,c,d, and the maps are the
\* positions of the inputs' values in it: [0,1,2] for the first input and
\* [1,3] for the second.
C4_RoundTrip ==
    RoundTripDone
        => /\ result.out_dict = <<"b", "a", "c", "d">>
           /\ history[1].map = <<0, 1, 2>>
           /\ history[2].map = <<1, 3>>

C4_Witness == RoundTripDone /\ result.out_dict = <<"b", "a", "c", "d">>

C6_FailedUnifyLeavesInterner ==
    (last.op = "Unify" /\ last.status # "OK")
        => memo_table_ = last.before /\ ~last.out_written

\* C9 as stated: once GetResult has returned, a later Unify is rejected and
\* the vocabulary no longer grows.
C9_Original ==
    result.done =>
        /\ (last.op = "Unify" => last.status # "OK")
        /\ memo_table_ = result.out_dict

\* C9 as amended: GetResult only reads the interner; a Unify after it is
\* treated as before and may grow the vocabulary, of which the dictionary
\* GetResult returned stays a prefix.
C9_ResultIsPrefix ==
    result.done =>
        /\ IsPrefix(result.out_dict, memo_table_)
        /\ (last.op = "GetResult" =>
                memo_table_ = last.before /\ result.out_dict = memo_table_)

C9_Witness ==
    /\ result.done /\ last.op = "Unify" /\ last.status = "OK"
    /\ Len(memo_table_) > Len(result.out_dict)

----------------------------------------------------------------------------
(* Properties of Transpose *)

SourceIsNull(i) == IsNull(tin.bitmap, tin.offset, i)

OutputIsNull(i) == IsNull(tout.bitmap, tout.offset, i)

\* C7: a successful Transpose gives an array of the source's length that is
\* null at exactly the logical positions at which the source is null, for
\* any slice offset, with or without a null bitmap, on either path.
C7_NullsPreserved ==
    tout.status = "OK" =>
        /\ tout.length = tin.length
        /\ \A i \in 0..(tin.length - 1) : OutputIsNull(i) <=> SourceIsNull(i)

\* C8: after a successful Transpose, at every non-null logical position i the
\* output index (read through the output's offset) is transpose_map[v], v
\* being the source index at i (read through the source's offset), on the
\* fast path and on the general path alike.
C8_IndicesTransposed ==
    tout.status = "OK" =>
        \A i \in 0..(tin.length - 1) :
            ~SourceIsNull(i) =>
                tout.indices[tout.offset + i + 1]
                    = tin.transpose_map[tin.indices[tin.offset + i + 1] + 1]

C8_Witness ==
    /\ tout.status = "OK" /\ tout.path = "general"
    /\ tin.offset = 1 /\ tin.length = 1 /\ ~SourceIsNull(0)
    /\ tin.indices = <<0, 1>> /\ tin.transpose_map = <<1, 200>>
    /\ tin.in_type = "int8" /\ tout.index_type = "int16"
    /\ tout.indices = <<200>>

\* C10: on the general path, transpose_map is read only at positions in
\* [0, in_dict_len), the source's non-null indices all lying in that range
\* and its null slots holding anything.
C10_MapReadInRange ==
    tout.path = "general" => tout.accessed \subseteq 0..(in_dict_len - 1)

=============================================================================
